---- MODULE Spec2Model ----
(***************************************************************************)
(* A model of the Translations app: translations/utils.py                  *)
(* (get_related_query_name, get_translations, get_relations_hierarchy,     *)
(* translate, update_translations) and translations/models.py              *)
(* (Translation, Translatable).                                            *)
(*                                                                         *)
(* A Python string is a sequence of symbols; a symbol is either the        *)
(* underscore "_" or a run of characters holding no underscore.            *)
(***************************************************************************)
EXTENDS Integers, Sequences, FiniteSets, TLC

VARIABLES
    paths,        \* the segments each relation string was written from
    relations,    \* the *relations argument of the call
    hierarchy,    \* get_relations_hierarchy: what the call produced
    store,        \* the committed rows of the Translation table
    arg_context,  \* the context argument of get_translations and translate
    arg_lang,     \* the lang argument of get_translations and translate
    result,       \* what get_translations or translate produced
    translations, \* the translations_queryset argument of translate
    heap,         \* the field values of the instances in memory
    each,         \* the same instances when translate is called one by one
    pc,           \* update_translations: where each caller's call stands
    ctx,          \* update_translations: each caller's context argument
    lng,          \* update_translations: each caller's validated language
    err,          \* update_translations: what each caller's call raised
    sel,          \* the rows each caller's delete statement found
    del,          \* the rows each caller's transaction has deleted
    ins,          \* the rows each caller's transaction has inserted
    pre,          \* the committed rows when each caller's call began
    rt            \* a fresh copy of a persisted instance, before and after translate

hvars == <<paths, relations, hierarchy>>
cvars == <<arg_context, arg_lang, result>>
ovars == <<translations, heap, each>>
pvars == <<pc, ctx, lng, err, sel, del, ins, pre, rt>>
vars == <<paths, relations, hierarchy, store, arg_context, arg_lang, result,
          translations, heap, each, pc, ctx, lng, err, sel, del, ins, pre, rt>>

None == "None"

\* the result of a call that was not made yet
NotCalled == [err |-> "not called", val |-> <<>>]

\* ------------------------------------------------------------------------
\* Bounds of the model
\* ------------------------------------------------------------------------
MaxSegs == 3
MaxPaths == 2
MaxRows == 3
MaxGiven == 2
MaxList == 2

\* ------------------------------------------------------------------------
\* Strings
\* ------------------------------------------------------------------------
\* django.db.models.constants.LOOKUP_SEP, as imported by utils.py
LOOKUP_SEP == <<"_", "_">>

StartsWithSep(s) == Len(s) >= 2 /\ s[1] = "_" /\ s[2] = "_"

RECURSIVE SplitAcc(_, _)
SplitAcc(s, cur) ==
    IF s = <<>> THEN <<cur>>
    ELSE IF StartsWithSep(s)
         THEN <<cur>> \o SplitAcc(SubSeq(s, 3, Len(s)), <<>>)
         ELSE SplitAcc(Tail(s), Append(cur, Head(s)))

\* str.split(LOOKUP_SEP): leftmost, non-overlapping separators
Split(s) == SplitAcc(s, <<>>)

RECURSIVE Join(_)
\* LOOKUP_SEP.join(parts)
Join(parts) ==
    IF parts = <<>> THEN <<>>
    ELSE IF Len(parts) = 1 THEN parts[1]
         ELSE parts[1] \o LOOKUP_SEP \o Join(Tail(parts))

Range(s) == {s[i] : i \in DOMAIN s}

SeqsUpTo(S, n) == UNION {[1..k -> S] : k \in 0..n}

\* ------------------------------------------------------------------------
\* get_relations_hierarchy
\* ------------------------------------------------------------------------
\* a dict is a sequence of [key, val] items in insertion order
HasKey(d, k) == \E i \in DOMAIN d : d[i].key = k

\* a nest appended even when it is empty
AppendNestAlways(d, k, nest) ==
    [i \in DOMAIN d |-> IF d[i].key = k
                         THEN [key |-> k, val |-> Append(d[i].val, nest)]
                         ELSE d[i]]

\* hierarchy.setdefault(root, [])
SetDefault(d, k) == IF HasKey(d, k) THEN d ELSE Append(d, [key |-> k, val |-> <<>>])

\* hierarchy[root].append(nest), skipped for an empty nest
AppendNestAll(d, k, nest) ==
    [i \in DOMAIN d |-> IF d[i].key = k
                         THEN [key |-> k, val |-> Append(d[i].val, nest)]
                         ELSE d[i]]

AppendNest(d, k, nest) ==
    IF nest # <<>> THEN AppendNestAll(d, k, nest) ELSE d

\* one turn of the loop over relations
HierarchyStep(d, relation) ==
    LET parts == Split(relation)
        root == parts[1]
        nest == Join(Tail(parts))
    IN  AppendNest(SetDefault(d, root), root, nest)

InvalidRelation(relation) == <<>> \in Range(Split(relation))

RECURSIVE HierarchyLoop(_, _)
HierarchyLoop(d, rels) ==
    IF rels = <<>> THEN [err |-> None, val |-> d]
    ELSE IF InvalidRelation(Head(rels))
         THEN [err |-> "ValueError", val |-> <<>>]
         ELSE HierarchyLoop(HierarchyStep(d, Head(rels)), Tail(rels))

get_relations_hierarchy(rels) == HierarchyLoop(<<>>, rels)

\* ------------------------------------------------------------------------
\* The project's models (the registry Django keeps of them)
\* ------------------------------------------------------------------------
\* Continent and Country inherit Translatable; Flag does not.
Translatables == {"Continent", "Country"}

Models == Translatables \cup {"Flag"}

\* settings.LANGUAGES
LANGUAGES == {"en", "de"}

\* django.utils.translation.get_language(): the active language
get_language == "en"

W(x) == <<x>>

\* Translatable.translations: related_query_name "%(app_label)s_%(class)s"
TranslationsQueryName(model) ==
    IF model = "Continent" THEN <<"app", "_", "continent">>
    ELSE <<"app", "_", "country">>

\* model._meta: each field with, for a relation, the model it leads to and
\* the name of the relation that leads back (field.remote_field.name)
PlainFields ==
    {[model |-> "Continent", name |-> W(n), related_model |-> None,
      remote_name |-> <<>>] : n \in {"name", "denonym", "code"}}
    \cup {[model |-> "Country", name |-> W(n), related_model |-> None,
           remote_name |-> <<>>] : n \in {"name", "code"}}
    \cup {[model |-> "Flag", name |-> W("name"), related_model |-> None,
           remote_name |-> <<>>]}

Relation(m, n, to, back) ==
    [model |-> m, name |-> n, related_model |-> to, remote_name |-> back]

RelationFields ==
    {Relation("Continent", W("countries"), "Country", W("continent")),
     Relation("Country", W("continent"), "Continent", W("countries")),
     Relation("Flag", W("country"), "Country", W("flags")),
     Relation("Country", W("flags"), "Flag", W("country"))}
    \cup {Relation(m, W("translations"), "Translation", TranslationsQueryName(m))
            : m \in Translatables}
    \cup {Relation("Translation", TranslationsQueryName(m), m, W("translations"))
            : m \in Translatables}

Fields == PlainFields \cup RelationFields

HasField(model, name) == \E f \in Fields : f.model = model /\ f.name = name

\* model._meta.get_field(name)
get_field(model, name) == CHOOSE f \in Fields : f.model = model /\ f.name = name

\* Translatable.get_translatable_fields, TranslatableMeta.fields given
\* explicitly: Continent ['name', 'denonym'], Country ['name']
get_translatable_fields(model) ==
    IF model = "Continent" THEN <<W("name"), W("denonym")>>
    ELSE IF model = "Country" THEN <<W("name")>>
    ELSE <<>>

\* issubclass(model, translations.models.Translatable)
IsTranslatable(model) == model \in Translatables

\* ------------------------------------------------------------------------
\* The rows of the project's tables
\* ------------------------------------------------------------------------
Ids == {1, 2}

\* str(obj.id), the text form Translation.object_id holds
Str(i) == IF i = 1 THEN "1" ELSE IF i = 2 THEN "2" ELSE "3"

\* Country.continent (a foreign key) and Flag.country, as <<from id, to id>>
CountryContinent == {<<1, 1>>, <<2, 1>>}
FlagCountry == {<<1, 1>>}

\* the ids a relation leads to from the row `id` of `model`
Linked(model, name, id) ==
    IF model = "Country" /\ name = W("continent")
        THEN {l[2] : l \in {x \in CountryContinent : x[1] = id}}
    ELSE IF model = "Continent" /\ name = W("countries")
        THEN {l[1] : l \in {x \in CountryContinent : x[2] = id}}
    ELSE IF model = "Flag" /\ name = W("country")
        THEN {l[2] : l \in {x \in FlagCountry : x[1] = id}}
    ELSE IF model = "Country" /\ name = W("flags")
        THEN {l[1] : l \in {x \in FlagCountry : x[2] = id}}
    ELSE {}

\* Translation.content_object: the rows of `model` a Translation row belongs to
Owners(row, model) ==
    {i \in Ids : row.content_type = model /\ row.object_id = Str(i)}

\* ------------------------------------------------------------------------
\* get_validated_language
\* ------------------------------------------------------------------------
\* translations.validators.validate_language
validate_language(lang) == lang \in LANGUAGES

get_validated_language(lang) ==
    LET l == IF lang # None THEN lang ELSE get_language
    IN  IF validate_language(l) THEN [err |-> None, val |-> l]
        ELSE [err |-> "ValidationError", val |-> l]

\* ------------------------------------------------------------------------
\* get_related_query_name
\* ------------------------------------------------------------------------
Raise(e) == [err |-> e, val |-> <<>>]
Return(v) == [err |-> None, val |-> v]

\* '{}__{}'.format(a, b)
Format(a, b) == a \o LOOKUP_SEP \o b

RECURSIVE get_related_query_name(_, _)
get_related_query_name(model, relation) ==
    LET parts == Split(relation)
        root == parts[1]
        branch == Tail(parts)
    IN  IF ~HasField(model, root) THEN Raise("FieldDoesNotExist")
        ELSE LET field == get_field(model, root)
             IN  IF field.related_model = None THEN Raise("AttributeError")
                 ELSE IF branch # <<>>
                      THEN LET b == get_related_query_name(field.related_model,
                                                           Join(branch))
                           IN  IF b.err # None THEN b
                               ELSE Return(Format(b.val, field.remote_name))
                      ELSE Return(field.remote_name)

\* ------------------------------------------------------------------------
\* Contexts
\* ------------------------------------------------------------------------
\* A context is a model instance, a list of them, a QuerySet (which knows its
\* model and holds the instances it fetched), or something else.  An instance
\* is a record with at least its model and its id.
Instance(o) == [kind |-> "instance", model |-> o.model, objs |-> <<o>>]
List(objs) == [kind |-> "list", model |-> None, objs |-> objs]
QuerySet(model, objs) == [kind |-> "queryset", model |-> model, objs |-> objs]
Other == [kind |-> "other", model |-> None, objs |-> <<>>]

\* "process context", as get_translations and translate do it
ProcessContext(context) ==
    IF context.kind = "queryset"
        THEN [err |-> None, model |-> context.model, is_plural |-> TRUE]
    ELSE IF context.kind = "list"
        THEN IF context.objs = <<>>
             THEN [err |-> "IndexError", model |-> None, is_plural |-> TRUE]
             ELSE [err |-> None, model |-> context.objs[1].model, is_plural |-> TRUE]
    ELSE IF context.kind = "instance"
        THEN [err |-> None, model |-> context.objs[1].model, is_plural |-> FALSE]
    ELSE [err |-> "Exception", model |-> None, is_plural |-> FALSE]

\* 'id__in' with the list of ids, or 'id' with the one id
FilterString(context) ==
    IF context.kind = "instance" THEN W("id") ELSE Format(W("id"), W("in"))

ContextValue(context) == [i \in DOMAIN context.objs |-> context.objs[i].id]

\* ------------------------------------------------------------------------
\* The queries get_translations hands to the database
\* ------------------------------------------------------------------------
RECURSIVE SumOver(_, _)
\* the sum of f[x] over the x of a finite set
SumOver(f, S) ==
    IF S = {} THEN 0
    ELSE LET x == CHOOSE y \in S : TRUE IN f[x] + SumOver(f, S \ {x})

\* the relation names of a lookup: what precedes its 'id' part
LookupPath(names) ==
    LET k == CHOOSE i \in DOMAIN names :
                 names[i] = W("id") /\ \A j \in 1..(i - 1) : names[j] # W("id")
    IN  SubSeq(names, 1, k - 1)

RECURSIVE Chains(_, _, _, _)
\* the joined rows that start at row `id` of `model`, follow the relations
\* `names` and end at a row whose id is one of `ids`
Chains(model, id, names, ids) ==
    IF names = <<>> THEN (IF id \in ids THEN 1 ELSE 0)
    ELSE LET f == get_field(model, Head(names))
             next == Linked(model, f.name, id)
         IN  SumOver([j \in next |-> Chains(f.related_model, j, Tail(names), ids)],
                     next)

\* the joined rows a Translation row has under models.Q(**{lookup: value})
QCount(row, q) ==
    LET names == LookupPath(Split(q.lookup))
        f == get_field("Translation", Head(names))
        ids == Range(q.value)
        own == Owners(row, f.related_model)
    IN  SumOver([i \in own |-> Chains(f.related_model, i, Tail(names), ids)], own)

\* filter_query = queries.pop(); for query in queries: filter_query |= query
OrQueries(queries) ==
    <<queries[Len(queries)]>> \o SubSeq(queries, 1, Len(queries) - 1)

\* A queryset is a bag: each row with the number of times it comes back.
\* the filter on the language left out
FilterNoLanguage(table, lang) == [r \in table |-> 1]

\* Translation.objects.filter(language=lang)
FilterLanguage(table, lang) ==
    [r \in {x \in table : x.language = lang} |-> 1]

\* queryset.filter(filter_query): one result per joined row
FilterQueries(qs, ored) ==
    LET n == [r \in DOMAIN qs |->
                 SumOver([i \in DOMAIN ored |-> QCount(r, ored[i])], DOMAIN ored)]
    IN  [r \in {x \in DOMAIN qs : n[x] > 0} |-> n[r]]

\* queryset.distinct()
Distinct(qs) == [r \in DOMAIN qs |-> 1]

\* Translatable.objects: Translatable is abstract (Meta.abstract = True), and
\* Django refuses the manager of an abstract model with an AttributeError.
TranslatableObjectsNone == Raise("AttributeError")

\* ------------------------------------------------------------------------
\* get_translations
\* ------------------------------------------------------------------------
FirstError(rs) ==
    LET k == CHOOSE i \in DOMAIN rs :
                 rs[i].err # None /\ \A j \in 1..(i - 1) : rs[j].err = None
    IN  rs[k].err

\* "query the translations for context itself"
OwnQuery(model, context) ==
    IF IsTranslatable(model)
    THEN <<[lookup |-> Format(get_related_query_name(model, W("translations")).val,
                              FilterString(context)),
            value |-> ContextValue(context)]>>
    ELSE <<>>

\* "query the translations for context relations"
RelationQuery(name, context) ==
    [lookup |-> Format(name, FilterString(context)), value |-> ContextValue(context)]

get_translations(context, rels, lang, table) ==
    LET vl == get_validated_language(lang)
        cx == ProcessContext(context)
    IN  IF vl.err # None THEN Raise(vl.err)
        ELSE IF cx.err # None THEN Raise(cx.err)
        ELSE LET names == [i \in DOMAIN rels |->
                              get_related_query_name(cx.model,
                                  Format(rels[i], W("translations")))]
             IN  IF \E i \in DOMAIN names : names[i].err # None
                 THEN Raise(FirstError(names))
                 ELSE LET queries == OwnQuery(cx.model, context) \o
                              [i \in DOMAIN rels |-> RelationQuery(names[i].val, context)]
                      IN  IF Len(queries) > 0
                          THEN Return(Distinct(FilterQueries(
                                   FilterLanguage(table, vl.val), OrQueries(queries))))
                          ELSE TranslatableObjectsNone

\* ------------------------------------------------------------------------
\* Instances in memory
\* ------------------------------------------------------------------------
\* A heap gives each instance the value of each of its fields.
ManyRelations == {W("countries"), W("flags")}

RECURSIVE Sorted(_)
\* the ids of a set in ascending order
Sorted(S) ==
    IF S = {} THEN <<>>
    ELSE LET m == CHOOSE x \in S : \A y \in S : x <= y
         IN  <<m>> \o Sorted(S \ {m})

NoValue == [kind |-> "none", model |-> None, objs |-> <<>>]

\* getattr(obj, relation_key, None), a Manager turned into .all(): the related
\* instances are the cached (prefetched) ones
RelationValue(obj, key) ==
    IF ~HasField(obj.model, key) THEN NoValue
    ELSE LET f == get_field(obj.model, key)
             ids == Sorted(Linked(obj.model, key, obj.id))
             objs == [i \in DOMAIN ids |-> [model |-> f.related_model, id |-> ids[i]]]
         IN  IF f.related_model = None THEN Other
             ELSE IF f.related_model = "Translation"
                  THEN QuerySet("Translation", <<>>)
             ELSE IF key \in ManyRelations THEN QuerySet(f.related_model, objs)
             ELSE IF objs = <<>> THEN NoValue
             ELSE Instance(objs[1])

\* setattr(obj, field, text)
SetAttr(h, obj, field, text) == [h EXCEPT ![obj][field] = text]

\* ------------------------------------------------------------------------
\* translate
\* ------------------------------------------------------------------------
\* the translations_queryset argument: None, a queryset (its rows in the order
\* they come back) or the dict of an earlier conversion
NoTranslations == [kind |-> "none", rows |-> <<>>]
GivenRows(rows) == [kind |-> "queryset", rows |-> rows]

RECURSIVE BagToSeq(_)
\* the rows of a queryset in the order the database gives them
BagToSeq(qs) ==
    IF DOMAIN qs = {} THEN <<>>
    ELSE LET r == CHOOSE x \in DOMAIN qs : TRUE
             rest == [x \in DOMAIN qs \ {r} |-> qs[x]]
         IN  [i \in 1..qs[r] |-> r] \o BagToSeq(rest)

SelectRows(rows, ct, oid) ==
    SelectSeq(rows, LAMBDA r : r.content_type = ct /\ r.object_id = oid)

\* "convert translations queryset to dict": content type, then object id, then
\* the list of the rows in their order
ToDict(rows) ==
    [k \in {<<rows[i].content_type, rows[i].object_id>> : i \in DOMAIN rows} |->
        SelectRows(rows, k[1], k[2])]

Ok(h) == [err |-> None, heap |-> h]
Fail(e, h) == [err |-> e, heap |-> h]

\* the condition under which a row's text is written to its field
Applies(model, obj_translation) ==
    /\ obj_translation.field \in Range(get_translatable_fields(model))
    /\ obj_translation.text # ""

RECURSIVE ApplyTranslations(_, _, _, _)
\* "for obj_translation in obj_translations"
ApplyTranslations(h, model, obj, obj_translations) ==
    IF obj_translations = <<>> THEN Ok(h)
    ELSE LET t == Head(obj_translations)
         IN  IF ~HasField(model, t.field) THEN Fail("FieldDoesNotExist", h)
             ELSE ApplyTranslations(
                      IF Applies(model, t) THEN SetAttr(h, obj, t.field, t.text) ELSE h,
                      model, obj, Tail(obj_translations))

\* translate_obj: a missing dict entry (KeyError) is passed over
translate_obj(h, model, obj, d) ==
    IF <<model, Str(obj.id)>> \notin DOMAIN d THEN Ok(h)
    ELSE ApplyTranslations(h, model, obj, d[<<model, Str(obj.id)>>])

RECURSIVE TranslateObjs(_, _, _, _)
\* "translate based on plural/singular": translate_obj for each instance
TranslateObjs(h, model, objs, d) ==
    IF objs = <<>> THEN Ok(h)
    ELSE LET r == translate_obj(h, model, Head(objs), d)
         IN  IF r.err # None THEN r
             ELSE TranslateObjs(r.heap, model, Tail(objs), d)

\* "translate context itself"
TranslateContext(h, model, objs, d) ==
    IF IsTranslatable(model) THEN TranslateObjs(h, model, objs, d) ELSE Ok(h)

RECURSIVE TranslateCall(_, _, _, _, _)
RECURSIVE translate_rel(_, _, _, _, _)
RECURSIVE TranslateRels(_, _, _, _, _)

\* translate_rel: each first level relation of one instance, with its nested
\* relations
translate_rel(h, obj, items, lang, d) ==
    IF items = <<>> THEN Ok(h)
    ELSE LET relation_value == RelationValue(obj, Head(items).key)
             r == IF relation_value = NoValue THEN Ok(h)
                  ELSE TranslateCall(h, relation_value, Head(items).val, lang, d)
         IN  IF r.err # None THEN r
             ELSE translate_rel(r.heap, obj, Tail(items), lang, d)

\* "translate based on plural/singular": translate_rel for each instance
TranslateRels(h, objs, items, lang, d) ==
    IF objs = <<>> THEN Ok(h)
    ELSE LET r == translate_rel(h, Head(objs), items, lang, d)
         IN  IF r.err # None THEN r
             ELSE TranslateRels(r.heap, Tail(objs), items, lang, d)

\* "translate context relations"
TranslateRelations(h, objs, rels, lang, d) ==
    LET relations_dict == get_relations_hierarchy(rels)
    IN  IF relations_dict.err # None THEN Fail(relations_dict.err, h)
        ELSE IF Len(relations_dict.val) > 0
             THEN TranslateRels(h, objs, relations_dict.val, lang, d)
             ELSE Ok(h)

\* translate, from the point where the language is validated and the
\* translations are a dict
TranslateCall(h, context, rels, lang, d) ==
    LET cx == ProcessContext(context)
    IN  IF cx.err # None THEN Fail(cx.err, h)
        ELSE LET own == TranslateContext(h, cx.model, context.objs, d)
             IN  IF own.err # None THEN own
                 ELSE TranslateRelations(own.heap, context.objs, rels, lang, d)

translate(h, context, rels, lang, translations_queryset, table) ==
    LET vl == get_validated_language(lang)
        cx == ProcessContext(context)
    IN  IF vl.err # None THEN Fail(vl.err, h)
        ELSE IF cx.err # None THEN Fail(cx.err, h)
        ELSE LET fetched == IF translations_queryset.kind = "none"
                            THEN get_translations(context, rels, vl.val, table)
                            ELSE Return(<<>>)
             IN  IF fetched.err # None THEN Fail(fetched.err, h)
                 ELSE LET rows == IF translations_queryset.kind = "none"
                                  THEN BagToSeq(fetched.val)
                                  ELSE translations_queryset.rows
                      IN  TranslateCall(h, context, rels, vl.val, ToDict(rows))

\* translate called once for each instance of a list, in the list's order,
\* each in a call of its own
RECURSIVE TranslateEach(_, _, _, _, _, _)
TranslateEach(h, objs, rels, lang, translations_queryset, table) ==
    IF objs = <<>> THEN h
    ELSE TranslateEach(
             translate(h, Instance(Head(objs)), rels, lang, translations_queryset,
                       table).heap,
             Tail(objs), rels, lang, translations_queryset, table)

\* ------------------------------------------------------------------------
\* update_translations
\* ------------------------------------------------------------------------
\* "process context", as update_translations does it: an empty list returns
ProcessUpdateContext(context) ==
    IF context.kind = "queryset"
        THEN [err |-> None, model |-> context.model, is_plural |-> TRUE, return |-> FALSE]
    ELSE IF context.kind = "list"
        THEN IF Len(context.objs) > 0
             THEN [err |-> None, model |-> context.objs[1].model, is_plural |-> TRUE,
                   return |-> FALSE]
             ELSE [err |-> None, model |-> None, is_plural |-> TRUE, return |-> TRUE]
    ELSE IF context.kind = "instance"
        THEN [err |-> None, model |-> context.objs[1].model, is_plural |-> FALSE,
              return |-> FALSE]
    ELSE [err |-> "Exception", model |-> None, is_plural |-> FALSE, return |-> FALSE]

\* translations.models.Translation(content_object=obj, language=lang,
\* field=field.name, text=field_value)
Translation(obj, lang, field, text) ==
    [content_type |-> obj.model, object_id |-> Str(obj.id), field |-> field,
     language |-> lang, text |-> text]

\* `if field_value:`
Truthy(field_value) == field_value # ""

RECURSIVE StageFields(_, _, _)
\* add_translations: "for field in translatable_fields"
StageFields(obj, lang, fields) ==
    IF fields = <<>> THEN <<>>
    ELSE LET field_value == obj.vals[Head(fields)]
         IN  (IF Truthy(field_value)
              THEN <<Translation(obj, lang, Head(fields), field_value)>>
              ELSE <<>>)
             \o StageFields(obj, lang, Tail(fields))

\* add_translations that leaves the last translatable field out
AddAllButLast(obj, lang, translatable_fields) ==
    StageFields(obj, lang, SubSeq(translatable_fields, 1, Len(translatable_fields) - 1))

add_translations(obj, lang, translatable_fields) ==
    StageFields(obj, lang, translatable_fields)

RECURSIVE StageObjs(_, _, _)
\* "translate based on plural/singular": add_translations for each instance
StageObjs(objs, lang, translatable_fields) ==
    IF objs = <<>> THEN <<>>
    ELSE add_translations(Head(objs), lang, translatable_fields)
         \o StageObjs(Tail(objs), lang, translatable_fields)

\* translations_objects when bulk_create is reached
TranslationsObjects(context, lang) ==
    StageObjs(context.objs, lang,
              get_translatable_fields(ProcessUpdateContext(context).model))

\* translations_queryset: get_translations(context, lang=lang), as the rows
\* it finds in a table
TranslationsQueryset(context, lang, table) ==
    DOMAIN get_translations(context, <<>>, lang, table).val

\* ------------------------------------------------------------------------
\* The instances and the tables the calls are tried on
\* ------------------------------------------------------------------------
Obj(m, i) == [model |-> m, id |-> i]

c1 == Obj("Continent", 1)
c2 == Obj("Continent", 2)
k1 == Obj("Country", 1)
k2 == Obj("Country", 2)
f1 == Obj("Flag", 1)
f2 == Obj("Flag", 2)

Contexts ==
    {Instance(c1), Instance(c2), Instance(k1), Instance(k2), Instance(f1),
     List(<<c1, c2>>), List(<<k1, k2>>), List(<<k2>>), List(<<f1, f2>>), List(<<>>),
     QuerySet("Continent", <<c1, c2>>), QuerySet("Country", <<>>), Other}

\* relation paths, each as its segments
PathSets ==
    {<<>>,
     <<<<W("countries")>>>>,
     <<<<W("continent")>>>>,
     <<<<W("countries"), W("continent")>>>>,
     <<<<W("continent"), W("countries")>>>>,
     <<<<W("countries"), W("flags")>>>>,
     <<<<W("country")>>>>,
     <<<<W("country"), W("continent")>>>>,
     <<<<W("country")>>, <<W("country"), W("continent")>>>>,
     <<<<W("flags"), W("country")>>, <<W("continent")>>>>,
     <<<<W("bogus")>>>>,
     <<<<W("name")>>>>,
     <<<<W("countries"), <<>>, W("continent")>>>>}

AllObjs == {c1, c2, k1, k2, f1, f2}

FieldNames(model) == {f.name : f \in {x \in PlainFields : x.model = model}}

\* the field values the instances are loaded with
InitialHeap == [o \in AllObjs |-> [f \in FieldNames(o.model) |-> "o"]]

NotEach == [done |-> FALSE, heap |-> InitialHeap]

NoCall ==
    /\ arg_context = Other
    /\ arg_lang = None
    /\ result = NotCalled

NoOverlay ==
    /\ translations = NoTranslations
    /\ heap = InitialHeap
    /\ each = NotEach

\* the rows a caller can hand to translate: of a translatable field, of
\* another field, of no field of the model, with or without text
GivenTexts(field) == IF field = W("name") THEN {"", "t", "u"} ELSE {"t"}

RowsToGive ==
    {r \in [content_type : Translatables, object_id : {Str(i) : i \in Ids},
            field : {W("name"), W("code"), W("bogus")}, language : {"en"},
            text : {"", "t", "u"}] : r.text \in GivenTexts(r.field)}


Texts == {"t"}

\* the rows update_translations can have written
Rows ==
    {[content_type |-> m, object_id |-> Str(i), field |-> f, language |-> l,
      text |-> t] :
        m \in Translatables, i \in Ids, f \in {W("name"), W("denonym")},
        l \in LANGUAGES, t \in Texts}

PossibleRows == {r \in Rows : r.field \in Range(get_translatable_fields(r.content_type))}

Key(r) == <<r.content_type, r.object_id, r.field, r.language>>

\* Translation.Meta.unique_together
Unique(rows) == \A r, q \in rows : Key(r) = Key(q) => r = q

Tables == {t \in SUBSET PossibleRows : Cardinality(t) <= MaxRows /\ Unique(t)}

\* ------------------------------------------------------------------------
\* The callers of update_translations and what they hold in memory
\* ------------------------------------------------------------------------
Procs == {1, 2}

\* an instance with the values of its fields
Inst(m, i, v) == [model |-> m, id |-> i, vals |-> v]

ContinentVals ==
    {[f \in FieldNames("Continent") |->
         IF f = W("name") THEN n ELSE IF f = W("denonym") THEN d ELSE "c"] :
         <<n, d>> \in {<<"a", "a">>, <<"b", "">>, <<"", "">>}}

CountryVals ==
    {[f \in FieldNames("Country") |-> IF f = W("name") THEN n ELSE "c"] :
         n \in {"a", ""}}

Continents == {Inst("Continent", i, v) : i \in Ids, v \in ContinentVals}
Countries == {Inst("Country", 1, v) : v \in CountryVals}
Flags == {Inst("Flag", 1, [f \in FieldNames("Flag") |-> "a"])}

\* a list holds an entity twice only as the same instance
SameInstance(objs) ==
    \A i, j \in DOMAIN objs : objs[i].id = objs[j].id => objs[i] = objs[j]

ContinentLists ==
    {objs \in SeqsUpTo(Continents, MaxList) : SameInstance(objs)}

UpdateContexts ==
    {Instance(o) : o \in Continents \cup Countries \cup Flags}
    \cup {List(objs) : objs \in ContinentLists}
    \cup {QuerySet("Continent", <<>>), Other}

UpdateLangs == {None, "de", "xx"}

\* two callers that hold the entity Continent 1, each with values of its own
SharedVals ==
    {[f \in FieldNames("Continent") |->
         IF f = W("name") THEN n ELSE IF f = W("denonym") THEN d ELSE "c"] :
         <<n, d>> \in {<<"a", "a">>, <<"b", "">>, <<"", "a">>, <<"", "">>}}

SharedContexts == {Instance(Inst("Continent", 1, v)) : v \in SharedVals}

NoRoundTrip ==
    [done |-> FALSE, obj |-> Inst("Flag", 1, [f \in FieldNames("Flag") |-> "a"]),
     err |-> None, after |-> InitialHeap]

NoPersist ==
    /\ pc = [p \in Procs |-> "idle"]
    /\ ctx = [p \in Procs |-> Other]
    /\ lng = [p \in Procs |-> None]
    /\ err = [p \in Procs |-> None]
    /\ sel = [p \in Procs |-> {}]
    /\ del = [p \in Procs |-> {}]
    /\ ins = [p \in Procs |-> {}]
    /\ pre = [p \in Procs |-> {}]
    /\ rt = NoRoundTrip

\* ------------------------------------------------------------------------
\* The relation strings a caller writes
\* ------------------------------------------------------------------------
\* a segment is a field name or, in a malformed path, empty
Segments == {<<>>, <<"a">>, <<"_", "b">>}

SegLists == SeqsUpTo(Segments, MaxSegs) \ {<<>>}

\* ------------------------------------------------------------------------
\* Specification of get_relations_hierarchy
\* ------------------------------------------------------------------------
HierInit ==
    /\ \E n \in 0..MaxPaths : paths \in [1..n -> SegLists]
    /\ relations = [i \in DOMAIN paths |-> Join(paths[i])]
    /\ hierarchy = NotCalled
    /\ store = {}
    /\ NoCall
    /\ NoOverlay
    /\ NoPersist

CallHierarchy ==
    /\ hierarchy = NotCalled
    /\ hierarchy' = get_relations_hierarchy(relations)
    /\ UNCHANGED <<paths, relations, store, cvars, ovars, pvars>>

HierNext == CallHierarchy

SpecHier == HierInit /\ [][HierNext]_vars

\* ------------------------------------------------------------------------
\* Specification of get_translations
\* ------------------------------------------------------------------------
FetchInit ==
    /\ paths \in PathSets
    /\ relations = [i \in DOMAIN paths |-> Join(paths[i])]
    /\ hierarchy = NotCalled
    /\ store \in Tables
    /\ arg_context \in Contexts
    /\ arg_lang \in LANGUAGES \cup {None, "xx"}
    /\ result = NotCalled
    /\ NoOverlay
    /\ NoPersist

CallGetTranslations ==
    /\ result = NotCalled
    /\ result' = get_translations(arg_context, relations, arg_lang, store)
    /\ UNCHANGED <<hvars, store, arg_context, arg_lang, ovars, pvars>>

FetchNext == CallGetTranslations

SpecFetch == FetchInit /\ [][FetchNext]_vars

\* ------------------------------------------------------------------------
\* Specification of translate
\* ------------------------------------------------------------------------
OverlayInit ==
    /\ paths \in PathSets
    /\ relations = [i \in DOMAIN paths |-> Join(paths[i])]
    /\ hierarchy = NotCalled
    /\ arg_context \in Contexts
    /\ arg_lang \in {"en", "xx"}
    /\ result = NotCalled
    /\ \/ /\ translations = NoTranslations
          /\ store \in Tables
       \/ /\ \E n \in 0..MaxGiven : \E rows \in [1..n -> RowsToGive] :
                translations = GivenRows(rows)
          /\ store = {}
    /\ heap = InitialHeap
    /\ each = NotEach
    /\ NoPersist

CallTranslate ==
    /\ result = NotCalled
    /\ LET r == translate(heap, arg_context, relations, arg_lang, translations, store)
       IN  /\ result' = [err |-> r.err, val |-> <<>>]
           /\ heap' = r.heap
    /\ UNCHANGED <<hvars, store, arg_context, arg_lang, translations, each, pvars>>

CallTranslateEach ==
    /\ ~each.done
    /\ arg_context.kind \in {"list", "queryset"}
    /\ each' = [done |-> TRUE,
                heap |-> TranslateEach(InitialHeap, arg_context.objs, relations,
                                       arg_lang, translations, store)]
    /\ UNCHANGED <<hvars, store, cvars, translations, heap, pvars>>

OverlayNext == CallTranslate \/ CallTranslateEach

SpecOverlay == OverlayInit /\ [][OverlayNext]_vars

\* ------------------------------------------------------------------------
\* Specification of update_translations
\* ------------------------------------------------------------------------
\* The database gives each transaction the committed rows (read committed),
\* locks a row its transaction deletes until the transaction ends, and checks
\* unique_together when a row is inserted.
InTransaction(p) == pc[p] \in {"atomic", "selected", "deleted", "inserted"}

LockedByOthers(p) == UNION {del[q] : q \in Procs \ {p}}

InsertedByOthers(p) == UNION {ins[q] : q \in Procs \ {p}}

SameKey(rows, r) == {x \in rows : Key(x) = Key(r)}

\* where a call stands after validating its language and processing its context
Entered(context, lang) ==
    LET vl == get_validated_language(lang)
        u == ProcessUpdateContext(context)
    IN  IF vl.err # None THEN [pc |-> "raised", err |-> vl.err]
        ELSE IF u.return THEN [pc |-> "returned", err |-> None]
        ELSE IF u.err # None THEN [pc |-> "raised", err |-> u.err]
        ELSE IF IsTranslatable(u.model) THEN [pc |-> "atomic", err |-> None]
        ELSE [pc |-> "returned", err |-> None]

\* update_translations is called: up to `with transaction.atomic()`
Call(p, contexts, langs) ==
    /\ pc[p] = "idle"
    /\ \E context \in contexts, lang \in langs :
          /\ pc' = [pc EXCEPT ![p] = Entered(context, lang).pc]
          /\ err' = [err EXCEPT ![p] = Entered(context, lang).err]
          /\ ctx' = [ctx EXCEPT ![p] = context]
          /\ lng' = [lng EXCEPT ![p] = get_validated_language(lang).val]
    /\ pre' = [pre EXCEPT ![p] = store]
    /\ sel' = [sel EXCEPT ![p] = {}]
    /\ rt' = NoRoundTrip
    /\ UNCHANGED <<hvars, store, cvars, ovars, del, ins>>

\* translations_queryset.select_for_update().delete(): the statement reads the
\* committed rows of the context and language
Select(p) ==
    /\ pc[p] = "atomic"
    /\ sel' = [sel EXCEPT ![p] = TranslationsQueryset(ctx[p], lng[p], store)]
    /\ pc' = [pc EXCEPT ![p] = "selected"]
    /\ UNCHANGED <<hvars, store, cvars, ovars, ctx, lng, err, del, ins, pre, rt>>

\* a delete that deletes nothing
DeletedNothing(p, latest) == {}

\* the rows the statement deletes: those it found that are still there, or,
\* in a database whose locking reads see the latest commit, those there now
Deleted(p, latest) ==
    IF latest THEN TranslationsQueryset(ctx[p], lng[p], store)
    ELSE sel[p] \cap store

\* ... and deletes them, once no other transaction holds a lock on them
Delete(p) ==
    /\ pc[p] = "selected"
    /\ \E latest \in BOOLEAN :
          /\ Deleted(p, latest) \cap LockedByOthers(p) = {}
          /\ del' = [del EXCEPT ![p] = Deleted(p, latest)]
    /\ pc' = [pc EXCEPT ![p] = "deleted"]
    /\ UNCHANGED <<hvars, store, cvars, ovars, ctx, lng, err, sel, ins, pre, rt>>

\* the rows of the table a transaction sees once it has deleted its own
Remaining(p) == store \ del[p]

\* unique_together is violated: by two of the new rows, or by a new row and a
\* committed row nobody is deleting
Duplicate(p, objects) ==
    \/ \E i, j \in DOMAIN objects : i # j /\ Key(objects[i]) = Key(objects[j])
    \/ \E i \in DOMAIN objects :
          SameKey(Remaining(p) \ LockedByOthers(p), objects[i]) # {}

\* the insert waits for a transaction that has inserted or is deleting a row
\* of the same key
MustWait(p, objects) ==
    \E i \in DOMAIN objects :
        \/ SameKey(InsertedByOthers(p), objects[i]) # {}
        \/ SameKey(Remaining(p) \cap LockedByOthers(p), objects[i]) # {}

\* a block that is not atomic: what was deleted stays deleted
NoRollback(p, e) ==
    /\ pc' = [pc EXCEPT ![p] = "raised"]
    /\ err' = [err EXCEPT ![p] = e]
    /\ sel' = [sel EXCEPT ![p] = {}]
    /\ del' = [del EXCEPT ![p] = {}]
    /\ ins' = [ins EXCEPT ![p] = {}]
    /\ store' = store \ del[p]

\* what `with transaction.atomic()` does when its body raises
Rollback(p, e) ==
    /\ pc' = [pc EXCEPT ![p] = "raised"]
    /\ err' = [err EXCEPT ![p] = e]
    /\ sel' = [sel EXCEPT ![p] = {}]
    /\ del' = [del EXCEPT ![p] = {}]
    /\ ins' = [ins EXCEPT ![p] = {}]
    /\ UNCHANGED store

\* the new rows are staged and, when there are any, bulk_create inserts them
Insert(p) ==
    /\ pc[p] = "deleted"
    /\ LET objects == TranslationsObjects(ctx[p], lng[p])
       IN  IF Len(objects) > 0 /\ Duplicate(p, objects)
           THEN Rollback(p, "IntegrityError")
           ELSE /\ ~MustWait(p, objects)
                /\ ins' = [ins EXCEPT ![p] = Range(objects)]
                /\ pc' = [pc EXCEPT ![p] = "inserted"]
                /\ UNCHANGED <<store, err, sel, del>>
    /\ UNCHANGED <<hvars, cvars, ovars, ctx, lng, pre, rt>>

\* the atomic block ends: the transaction commits and the call returns
Commit(p) ==
    /\ pc[p] = "inserted"
    /\ store' = (store \ del[p]) \cup ins[p]
    /\ pc' = [pc EXCEPT ![p] = "returned"]
    /\ sel' = [q \in Procs |-> IF q = p THEN {} ELSE sel[q] \ del[p]]
    /\ del' = [del EXCEPT ![p] = {}]
    /\ ins' = [ins EXCEPT ![p] = {}]
    /\ UNCHANGED <<hvars, cvars, ovars, ctx, lng, err, pre, rt>>

\* the database raises inside the atomic block: `except Exception: raise`
StoreError(p) ==
    /\ InTransaction(p)
    /\ Rollback(p, "DatabaseError")
    /\ UNCHANGED <<hvars, cvars, ovars, ctx, lng, pre, rt>>

\* after update_translations returned, translate is called on a fresh copy of
\* one of the instances, in the same language and with no relations
RoundTrip(p) ==
    /\ pc[p] = "returned"
    /\ ~rt.done
    /\ \E i \in DOMAIN ctx[p].objs :
          LET o == Obj(ctx[p].objs[i].model, ctx[p].objs[i].id)
              r == translate(InitialHeap, Instance(o), <<>>, lng[p], NoTranslations,
                             store)
          IN  /\ IsTranslatable(o.model)
              /\ rt' = [done |-> TRUE, obj |-> ctx[p].objs[i], err |-> r.err,
                        after |-> r.heap]
    /\ UNCHANGED <<hvars, store, cvars, ovars, pc, ctx, lng, err, sel, del, ins, pre>>

\* the caller has the outcome of its call and goes on
Finish(p) ==
    /\ pc[p] \in {"returned", "raised"}
    /\ pc' = [pc EXCEPT ![p] = "idle"]
    /\ ctx' = [ctx EXCEPT ![p] = Other]
    /\ lng' = [lng EXCEPT ![p] = None]
    /\ err' = [err EXCEPT ![p] = None]
    /\ pre' = [pre EXCEPT ![p] = {}]
    /\ rt' = NoRoundTrip
    /\ UNCHANGED <<hvars, store, cvars, ovars, sel, del, ins>>

PersistInit ==
    /\ paths = <<>>
    /\ relations = <<>>
    /\ hierarchy = NotCalled
    /\ store = {}
    /\ NoCall
    /\ NoOverlay
    /\ NoPersist

\* one caller
PersistNext ==
    \/ Call(1, UpdateContexts, UpdateLangs)
    \/ Select(1)
    \/ Delete(1)
    \/ Insert(1)
    \/ Commit(1)
    \/ StoreError(1)
    \/ RoundTrip(1)
    \/ Finish(1)

SpecPersist == PersistInit /\ [][PersistNext]_vars

\* two callers at once, each with its own instance of the same entity
ConcurrentNext ==
    \E p \in Procs :
        \/ Call(p, SharedContexts, {None})
        \/ Select(p)
        \/ Delete(p)
        \/ Insert(p)
        \/ Commit(p)
        \/ StoreError(p)
        \/ Finish(p)

SpecConcurrent == PersistInit /\ [][ConcurrentNext]_vars

\* ------------------------------------------------------------------------
\* C7: get_relations_hierarchy
\* ------------------------------------------------------------------------
\* the input positions whose path starts with segment k and goes on after it
NestedAt(k) == {i \in DOMAIN paths : paths[i][1] = k /\ Len(paths[i]) > 1}

\* the j-th smallest member of a set of positions
Nth(S, j) == CHOOSE i \in S : Cardinality({m \in S : m < i}) = j - 1

FirstAt(k) == CHOOSE i \in DOMAIN paths :
    /\ paths[i][1] = k
    /\ \A m \in DOMAIN paths : paths[m][1] = k => i <= m

HasEmptySegment == \E i \in DOMAIN paths : <<>> \in Range(paths[i])

GroupedByFirstSegment(d) ==
    /\ \A a, b \in DOMAIN d : a # b => d[a].key # d[b].key
    /\ {d[a].key : a \in DOMAIN d} = {paths[i][1] : i \in DOMAIN paths}
    /\ \A a, b \in DOMAIN d : a < b => FirstAt(d[a].key) < FirstAt(d[b].key)
    /\ \A a \in DOMAIN d :
          /\ Len(d[a].val) = Cardinality(NestedAt(d[a].key))
          /\ \A j \in DOMAIN d[a].val :
                relations[Nth(NestedAt(d[a].key), j)]
                    = d[a].key \o LOOKUP_SEP \o d[a].val[j]

\* C7: get_relations_hierarchy raises exactly when some path has an empty
\* segment; otherwise its keys are the distinct first segments in order of
\* first occurrence, and each key's value lists, in input order, what follows
\* the first segment in every longer path that starts with the key.
C7_Hierarchy ==
    hierarchy # NotCalled =>
        /\ hierarchy.err = "ValueError" <=> HasEmptySegment
        /\ hierarchy.err = None => GroupedByFirstSegment(hierarchy.val)

C7_Witness ==
    /\ hierarchy # NotCalled
    /\ hierarchy.err = None
    /\ \E a \in DOMAIN hierarchy.val : Len(hierarchy.val[a].val) = 2
    /\ \E i \in DOMAIN paths : Len(paths[i]) = 3

\* ------------------------------------------------------------------------
\* C9: get_translations
\* ------------------------------------------------------------------------
IsRelation(model, seg) ==
    \E f \in RelationFields :
        f.model = model /\ f.name = seg /\ f.related_model # "Translation"

RelatedModel(model, seg) ==
    (CHOOSE f \in RelationFields : f.model = model /\ f.name = seg).related_model

RECURSIVE EndModel(_, _)
\* the model a path ends at, None when a segment names no relation
EndModel(model, segs) ==
    IF segs = <<>> THEN model
    ELSE IF IsRelation(model, Head(segs))
         THEN EndModel(RelatedModel(model, Head(segs)), Tail(segs))
         ELSE None

RECURSIVE Reached(_, _, _)
\* the ids reached from the rows `ids` of `model` by following a path to its end
Reached(model, ids, segs) ==
    IF segs = <<>> THEN ids
    ELSE Reached(RelatedModel(model, Head(segs)),
                 UNION {Linked(model, Head(segs), i) : i \in ids},
                 Tail(segs))

ArgModel ==
    IF arg_context.kind = "queryset" THEN arg_context.model
    ELSE arg_context.objs[1].model

ArgIds == {arg_context.objs[i].id : i \in DOMAIN arg_context.objs}

ArgLang == IF arg_lang = None THEN get_language ELSE arg_lang

WellFormedCall ==
    /\ ArgLang \in LANGUAGES
    /\ arg_context.kind # "other"
    /\ ~(arg_context.kind = "list" /\ arg_context.objs = <<>>)

ValidPaths ==
    \A i \in DOMAIN paths :
        /\ paths[i] # <<>>
        /\ EndModel(ArgModel, paths[i]) \in Translatables

\* the entities whose rows the call is to return, as <<model, id text>>
Targets ==
    (IF IsTranslatable(ArgModel) THEN {<<ArgModel, Str(i)>> : i \in ArgIds} ELSE {})
    \cup UNION {{<<EndModel(ArgModel, paths[p]), Str(i)>> :
                    i \in Reached(ArgModel, ArgIds, paths[p])} : p \in DOMAIN paths}

ExpectedRows ==
    {r \in store : r.language = ArgLang /\ <<r.content_type, r.object_id>> \in Targets}

\* C9: get_translations returns, each once, exactly the rows of the language
\* that belong to an entity of a translatable context or to an entity reached
\* by following a path to its end, and the empty set for a context that is
\* not translatable and has no paths.
C9_Fetch ==
    (result # NotCalled /\ WellFormedCall /\ ValidPaths) =>
        /\ result.err = None
        /\ result.val = [r \in ExpectedRows |-> 1]

\* the same, leaving out the context that is not translatable and has no paths
C9_FetchWithClauses ==
    (result # NotCalled /\ WellFormedCall /\ ValidPaths
        /\ (IsTranslatable(ArgModel) \/ paths # <<>>)) =>
        /\ result.err = None
        /\ result.val = [r \in ExpectedRows |-> 1]

\* ------------------------------------------------------------------------
\* C5, C6, C8: translate
\* ------------------------------------------------------------------------
Called == result # NotCalled

\* the rows of the translation set of the call
SetRows ==
    IF translations.kind # "none" THEN translations.rows
    ELSE IF WellFormedCall /\ ValidPaths THEN BagToSeq([r \in ExpectedRows |-> 1])
    ELSE <<>>

\* the rows of the set that can change field f of instance o
RowsFor(o, f) ==
    {i \in DOMAIN SetRows :
        /\ SetRows[i].content_type = o.model
        /\ SetRows[i].object_id = Str(o.id)
        /\ SetRows[i].field = f
        /\ SetRows[i].text # ""}

IsTranslatableField(o, f) == f \in Range(get_translatable_fields(o.model))

OnlyTranslatedFieldsChange ==
    \A o \in AllObjs : \A f \in FieldNames(o.model) :
        heap[o][f] # InitialHeap[o][f] =>
            /\ IsTranslatableField(o, f)
            /\ \E i \in RowsFor(o, f) : heap[o][f] = SetRows[i].text

LastOf(S) == CHOOSE i \in S : \A j \in S : j <= i

EveryRowApplied ==
    \A n \in DOMAIN arg_context.objs :
        LET o == arg_context.objs[n]
        IN  \A f \in FieldNames(o.model) :
                IF IsTranslatableField(o, f) /\ RowsFor(o, f) # {}
                THEN heap[o][f] = SetRows[LastOf(RowsFor(o, f))].text
                ELSE heap[o][f] = InitialHeap[o][f]

\* C5: translate changes a field only when it is a translatable field with a
\* row of non-empty text for its entity; a row with empty text, a row of a
\* field that is not translatable and an entity with no rows are passed over
\* and the remaining rows are applied.
C5_Overlay ==
    Called =>
        /\ OnlyTranslatedFieldsChange
        /\ (WellFormedCall /\ paths = <<>> /\ translations.kind = "queryset") =>
              /\ result.err = None
              /\ EveryRowApplied

NoMissingField ==
    \A i \in DOMAIN SetRows : HasField(SetRows[i].content_type, SetRows[i].field)

\* the same for sets whose rows all name a field of their model
C5_OverlayOfKnownFields ==
    (Called /\ NoMissingField) =>
        /\ OnlyTranslatedFieldsChange
        /\ (WellFormedCall /\ paths = <<>> /\ translations.kind = "queryset") =>
              /\ result.err = None
              /\ EveryRowApplied

\* C6: translate of a list leaves every instance as the calls of translate on
\* each instance of the list, one by one, leave it.
C6_PluralSingular == (Called /\ each.done) => heap = each.heap

\* the same for the calls that raise nothing
C6_PluralSingularNoError ==
    (Called /\ each.done /\ result.err = None /\ NoMissingField) => heap = each.heap

\* the errors of the call: of the language, of the context, of a relation
\* that is not there, of a malformed path
CallErrors == {"ValidationError", "Exception", "IndexError", "FieldDoesNotExist",
               "ValueError"}

\* C8: when translate raises, no field of any instance has changed.
C8_Eager ==
    (Called /\ NoMissingField /\ result.err \in CallErrors) => heap = InitialHeap

\* the same for the calls that fetch the translations themselves
C8_EagerWhenFetched ==
    (Called /\ result.err \in CallErrors /\ translations.kind = "none")
        => heap = InitialHeap

\* ------------------------------------------------------------------------
\* C1, C2, C3, C4, C10: update_translations
\* ------------------------------------------------------------------------
\* the rows update_translations is to leave for an instance in a language
RowsOf(obj, lang) ==
    {Translation(obj, lang, f, obj.vals[f]) :
        f \in {x \in Range(get_translatable_fields(obj.model)) : obj.vals[x] # ""}}

\* the rows a table holds for an entity in a language
RowsIn(rows, obj, lang) ==
    {r \in rows : /\ r.content_type = obj.model
                  /\ r.object_id = Str(obj.id)
                  /\ r.language = lang}

\* C1: of two calls on the same entity and language that run at once, neither
\* raises for a duplicate key, and once both have returned the table holds the
\* rows of one of them.
C1_Serialized ==
    /\ \A p \in Procs : err[p] # "IntegrityError"
    /\ (\A p \in Procs : pc[p] = "returned") =>
          \E p \in Procs :
              RowsIn(store, ctx[p].objs[1], lng[p]) = RowsOf(ctx[p].objs[1], lng[p])

RaisedInTransaction(p) ==
    pc[p] = "raised" /\ err[p] \in {"IntegrityError", "DatabaseError"}

\* C2: a call that fails once its transaction is open raises, and the
\* committed table is what it was when the call began.
C2_Atomic ==
    \A p \in Procs :
        /\ RaisedInTransaction(p) => store = pre[p]
        /\ (pc[p] \notin {"idle", "returned"} /\ ~InTransaction(p)) => err[p] # None

C2_Witness ==
    /\ RaisedInTransaction(1)
    /\ err[1] = "IntegrityError"
    /\ TranslationsQueryset(ctx[1], lng[1], pre[1]) # {}

Persisted(p) ==
    /\ pc[p] = "returned"
    /\ ctx[p].objs # <<>>
    /\ IsTranslatable(ctx[p].objs[1].model)

\* C3: the table never holds two rows of one (type, id, field, language), and
\* after update_translations returns the rows of each instance of the context
\* in the language are one row for each translatable field with a value.
C3_Unique ==
    /\ Unique(store)
    /\ \A p \in Procs : Persisted(p) =>
          \A i \in DOMAIN ctx[p].objs :
              RowsIn(store, ctx[p].objs[i], lng[p]) = RowsOf(ctx[p].objs[i], lng[p])

C3_Witness ==
    /\ Persisted(1)
    /\ ctx[1].objs[1].vals[W("name")] = "b"
    /\ \E r \in RowsIn(pre[1], ctx[1].objs[1], lng[1]) : r.text = "a"
    /\ \E r \in RowsIn(pre[1], ctx[1].objs[1], lng[1]) : r.field = W("denonym")

\* C4: update_translations, then translate of a fresh copy in the same
\* language and with no relations: each translatable field that had a value
\* has it again, each that had none keeps the value of the copy.
C4_RoundTrip ==
    rt.done =>
        /\ rt.err = None
        /\ \A f \in Range(get_translatable_fields(rt.obj.model)) :
              LET o == Obj(rt.obj.model, rt.obj.id)
              IN  IF rt.obj.vals[f] # "" THEN rt.after[o][f] = rt.obj.vals[f]
                  ELSE rt.after[o][f] = InitialHeap[o][f]

C4_Witness ==
    /\ rt.done
    /\ rt.obj.model = "Continent"
    /\ rt.obj.vals[W("name")] = "b"
    /\ rt.obj.vals[W("denonym")] = ""
    /\ rt.after[Obj("Continent", rt.obj.id)][W("name")] = "b"

InContext(p, r) ==
    \E i \in DOMAIN ctx[p].objs :
        r.content_type = ctx[p].objs[i].model /\ r.object_id = Str(ctx[p].objs[i].id)

Changed(p) == (store \ pre[p]) \cup (pre[p] \ store)

NoOp(p) ==
    \/ ctx[p].objs = <<>>
    \/ ~IsTranslatable(ctx[p].objs[1].model)

\* C10: a call changes only rows of its language that belong to an instance of
\* its context, whether it returns or raises, and none at all for an empty
\* list or a model that is not translatable.
C10_Frame ==
    \A p \in Procs : pc[p] # "idle" =>
        /\ \A r \in Changed(p) : r.language = lng[p] /\ InContext(p, r)
        /\ NoOp(p) => store = pre[p]

C10_Witness ==
    /\ pc[1] = "returned"
    /\ Changed(1) # {}
    /\ \E r \in store : r.language # lng[1] /\ InContext(1, r)
    /\ \E r \in store : r.language = lng[1] /\ ~InContext(1, r)

====
